---- MODULE Spec2Model ----
(***************************************************************************)
(* Model of khdiyz/media-service: the gRPC handlers of                     *)
(* internal/handler/media_handler.go, the pass-through service of          *)
(* internal/service/media_service.go and the MinIO storage adapter         *)
(* (storage package: Storage interface and MinioStorage).                  *)
(*                                                                         *)
(* UploadStream is modelled statement by statement as two tasks, the       *)
(* receive loop of the handler and the goroutine that runs the storage     *)
(* write, joined by an io.Pipe and a result channel of capacity 1.         *)
(* The object store behind minio.Client (PutObject, GetObject, Stat,       *)
(* RemoveObject) is outside the repository: it is a map from key to        *)
(* object, and every call on it may fail.                                  *)
(***************************************************************************)
EXTENDS Integers, Sequences, FiniteSets, TLC

(* ------------------------------ bounds -------------------------------- *)

\* Longest chunk payload of one inbound frame.
MaxChunkLen == 2
\* Most inbound frames Recv delivers after the first one, per call.
MaxFrames == 2
\* Most keys generated (uuid.NewString calls) in one run.
MaxKeys == 2
\* Largest object the bucket holds before the first call.
MaxObjectLen == 3
\* Size of the DownloadStream read buffer; the code's is 32*1024
\* (media_handler.go:173), scaled down so that objects of a few bytes
\* span several buffers.
BufferSize == 2
\* Most DownloadStream calls in one run.
MaxDownloads == 1

(* ----------------------------- constants ------------------------------ *)

\* Capacity of resultChan: make(chan uploadResult, 1).
ResultChanCap == 1

RECURSIVE SeqsUpTo(_, _)
\* All sequences over S of length at most n.
SeqsUpTo(S, n) ==
    IF n = 0 THEN {<<>>}
    ELSE LET shorter == SeqsUpTo(S, n - 1)
         IN  shorter \cup {Append(s, x) : s \in {t \in shorter : Len(t) = n - 1}, x \in S}

\* Byte values of whole-body content buffers.
Byte == {1, 2}
\* Content buffers of whole-body uploads: empty, one byte, two bytes.
Contents == { <<>>, <<1>>, <<1, 2>> }
\* Contents of the objects found in the bucket at start.
Objects == SeqsUpTo(Byte, MaxObjectLen)

\* The payload of an inbound chunk frame of n bytes that follows `before`
\* payload bytes. The handler never looks into a payload, so the k-th payload
\* byte of a call is given the value k: a byte dropped, repeated or moved
\* anywhere on the way to the bucket changes the sequence.
Payload(before, n) == [i \in 1..n |-> before + i]

\* File names, as sequences of characters.
FileNames == { <<"a", ".", "t">>, <<"d", ".", "x", "/", "a">> }
ContentTypes == { "text/plain" }
\* Advisory sizes of a metadata frame: unknown, zero, right or wrong.
SizeHints == {-1, 0, 1, 2}
\* Buffer lengths of the reads PutObject makes on the conduit.
ReadLens == {1, 2}
\* Calendar days time.Now() may fall on.
Days == {1, 2}

Min(a, b) == IF a < b THEN a ELSE b

\* s without its first n elements.
Drop(s, n) == SubSeq(s, n + 1, Len(s))
\* The first n elements of s.
Take(s, n) == SubSeq(s, 1, n)

(* ------------- path policy: MinioStorage.Upload, lines 73-76 ---------- *)

RECURSIVE ExtFrom(_, _)
\* filepath.Ext's loop: scan from the end, stop at a path separator, return
\* the suffix that starts at the first dot met.
ExtFrom(path, i) ==
    IF i < 1 \/ path[i] = "/" THEN <<>>
    ELSE IF path[i] = "." THEN SubSeq(path, i, Len(path))
    ELSE ExtFrom(path, i - 1)

\* filepath.Ext(fileName)
Ext(path) == ExtFrom(path, Len(path))

\* uuid.NewString(): the n-th identifier handed out, one token.
UuidTokens == <<"u1", "u2", "u3", "u4", "u5", "u6">>
NewUuid(n) == UuidTokens[n]

\* time.Now().Format("2006/01/02")
DayTokens == <<"01", "02">>
FormatDate(day) == <<"2026", "/", "11", "/", DayTokens[day]>>

\* The key of an upload that ignores the unique id: what a path policy
\* built from the date and the original name alone would produce.
FilePathNoUuid(day, uniqueID, fileName) ==
    FormatDate(day) \o <<"/">> \o <<"name">> \o Ext(fileName)

\* fmt.Sprintf("%s/%s%s", timestamp, uniqueID, ext)
FilePath(day, uniqueID, fileName) ==
    FormatDate(day) \o <<"/">> \o <<uniqueID>> \o Ext(fileName)

(* ------------------------------ io.Pipe ------------------------------- *)

\* Error values.
ErrNil == "nil"
ErrEOF == "EOF"
ErrClosedPipe == "io: read/write on closed pipe"
ErrRecv == "recv error"
ErrStorage == "storage error"

\* io.Pipe(): nothing offered, neither end closed.
NewPipe == [made |-> TRUE, done |-> FALSE, werr |-> ErrNil, rerr |-> ErrNil,
            offered |-> FALSE, buf |-> <<>>]

\* Before io.Pipe() has run in a call.
NoPipe == [NewPipe EXCEPT !.made = FALSE]

\* pipe.closeWrite(err); onceError.Store keeps the first error stored.
CloseWrite(p, err) ==
    [p EXCEPT !.werr = IF @ = ErrNil THEN (IF err = ErrNil THEN ErrEOF ELSE err) ELSE @,
              !.done = TRUE]

\* pipe.closeRead(err)
CloseRead(p, err) ==
    [p EXCEPT !.rerr = IF @ = ErrNil THEN (IF err = ErrNil THEN ErrClosedPipe ELSE err) ELSE @,
              !.done = TRUE]

\* pipe.readCloseError()
ReadCloseError(p) ==
    IF p.rerr = ErrNil /\ p.werr # ErrNil THEN p.werr ELSE ErrClosedPipe

\* pipe.writeCloseError()
WriteCloseError(p) ==
    IF p.werr = ErrNil /\ p.rerr # ErrNil THEN p.rerr ELSE ErrClosedPipe

\* One pipe.read with a buffer of n bytes while a write is offered: copy
\* min(n, len) bytes out of the writer's slice, the writer goes on offering
\* the rest (its loop runs while len(b) > 0).
PipeTake(p, n) ==
    LET nr == Min(n, Len(p.buf))
    IN  [ p   |-> [p EXCEPT !.buf = Drop(@, nr), !.offered = Len(p.buf) > nr],
          got |-> Take(p.buf, nr) ]

(* --------------------------- the object store ------------------------- *)

EmptyMap == [k \in {} |-> <<>>]

\* m with key k bound to v.
MapPut(m, k, v) == [x \in DOMAIN m \cup {k} |-> IF x = k THEN v ELSE m[x]]

\* m without key k.
MapRemove(m, k) == [x \in DOMAIN m \ {k} |-> m[x]]

(* ------------------------------- state -------------------------------- *)

VARIABLES
    \* UploadStream, the handler's task
    hpc,         \* position: idle, first, recv, write, wait, done
    calls,       \* UploadStream calls begun
    nFrames,     \* frames received by the loop of lines 84-105
    loopIn,      \* what each of them carried: metadata, unset, empty, chunk
    meta,        \* metadata of the first frame
    firstIn,     \* what the first stream.Recv() returned
    pipe,        \* the io.Pipe of line 67
    wn,          \* n of the writer.Write in progress
    totalBytes,  \* line 83
    resultChan,  \* line 74, a sequence of at most ResultChanCap results
    status,      \* status the call returned: its code and message
    sent,        \* responses handed to stream.SendAndClose
    rcvd,        \* concatenation of the chunk payloads received by the loop
    \* UploadStream, the goroutine of lines 77-80
    spc,         \* position: none, start, put, send, done
    sKey,        \* filePath computed by MinioStorage.Upload
    sBuf,        \* bytes PutObject has read from the conduit
    sObs,        \* how PutObject saw the conduit end: none, eof, err
    sRes,        \* what h.service.UploadStream returned
    \* storage and path policy
    store,       \* the bucket: key -> stored object
    uuidCtr,     \* identifiers handed out by uuid.NewString
    keyLog,      \* every generated key with the file name it was made for
    \* unary calls
    upLog,       \* key -> content of every successful whole-body Upload
    dlResp,      \* outcome of the last Download
    fileURL,     \* m.fileURL, the configured public base URL
    urlResp,     \* outcome of the last GetURL or GetFileInfo
    \* DownloadStream
    dpc,         \* position: idle, meta, read, done
    dCalls,      \* DownloadStream calls begun
    dPath,       \* req.FilePath
    dData,       \* content behind the read handle
    dPos,        \* bytes the read handle has returned
    dFrames,     \* frames passed to stream.Send, in order
    dLast,       \* what the last reader.Read returned and how the Send went
    dStatus,     \* status the call returned
    dClosed      \* reader.Close() calls on the handle

usVars == <<hpc, calls, nFrames, loopIn, meta, firstIn, pipe, wn, totalBytes, resultChan, status,
            sent, rcvd, spc, sKey, sBuf, sObs, sRes>>
unaryVars == <<upLog, dlResp>>
urlVars == <<fileURL, urlResp>>
dsVars == <<dpc, dCalls, dPath, dData, dPos, dFrames, dLast, dStatus, dClosed>>
vars == <<usVars, store, uuidCtr, keyLog, unaryVars, urlVars, dsVars>>

NoMeta == [fileName |-> <<>>, fileSize |-> 0, contentType |-> ""]
NoResult == [filePath |-> <<>>, err |-> ErrNil]
\* The handler has not returned.
NoStatus == [code |-> "none", msg |-> ""]
NoDownload == [path |-> <<>>, status |-> "none", content |-> <<>>,
               fileSize |-> 0, fileName |-> <<>>, contentType |-> "", closed |-> 0]
\* No Read and no Send yet in the DownloadStream call.
NoRead == [n |-> 0, err |-> ErrNil, send |-> "none"]
NoUrlResp == [op |-> "none", filePath |-> <<>>, url |-> <<>>, status |-> "none"]

\* m.bucketName
BucketName == <<"media">>
\* Values of MINIO_FILE_URL: not set (the default) or a base URL.
FileURLs == { <<>>, <<"https://cdn.example.com">> }

\* No call has begun.
InitCalls ==
    /\ hpc = "idle"
    /\ calls = 0
    /\ nFrames = 0
    /\ loopIn = <<>>
    /\ meta = NoMeta
    /\ firstIn = "none"
    /\ pipe = NoPipe
    /\ wn = 0
    /\ totalBytes = 0
    /\ resultChan = <<>>
    /\ status = NoStatus
    /\ sent = <<>>
    /\ rcvd = <<>>
    /\ spc = "none"
    /\ sKey = <<>>
    /\ sBuf = <<>>
    /\ sObs = "none"
    /\ sRes = NoResult
    /\ upLog = EmptyMap
    /\ dlResp = NoDownload
    /\ urlResp = NoUrlResp
    /\ dpc = "idle"
    /\ dCalls = 0
    /\ dPath = <<>>
    /\ dData = <<>>
    /\ dPos = 0
    /\ dFrames = <<>>
    /\ dLast = NoRead
    /\ dStatus = "none"
    /\ dClosed = 0

\* A service started on an empty bucket.
Init ==
    /\ InitCalls
    /\ fileURL = <<>>
    /\ store = EmptyMap
    /\ uuidCtr = 0
    /\ keyLog = <<>>

\* A service started on a bucket that holds one object, stored by an earlier
\* upload under a key of the path policy.
InitDownload ==
    /\ InitCalls
    /\ fileURL = <<>>
    /\ uuidCtr = 1
    /\ \E name \in FileNames, day \in Days, data \in Objects :
         /\ keyLog = << [key |-> FilePath(day, NewUuid(1), name), fileName |-> name] >>
         /\ store = MapPut(EmptyMap, FilePath(day, NewUuid(1), name), data)

(* ----------------- inbound frames of UploadStream --------------------- *)

MetaFrames ==
    { [kind |-> "metadata",
       meta |-> [fileName |-> f, fileSize |-> h, contentType |-> c],
       chunk |-> <<>>] : f \in FileNames, h \in SizeHints, c \in ContentTypes }
\* The chunk frames that may follow `before` payload bytes.
ChunkFrames(before) ==
    { [kind |-> "chunk", meta |-> NoMeta, chunk |-> Payload(before, n)] : n \in 0..MaxChunkLen }
\* A frame whose oneof is not set.
EmptyFrame == [kind |-> "unset", meta |-> NoMeta, chunk |-> <<>>]
Frames == MetaFrames \cup ChunkFrames(0) \cup {EmptyFrame}

\* A handler that takes whatever comes first for the metadata.
HasMetadataUnchecked(f) == TRUE

\* req.GetMetadata() # nil
HasMetadata(f) == f.kind = "metadata"
\* req.GetChunk() # nil
HasChunk(f) == f.kind = "chunk"

\* The storage write has been started and has not returned.
StorageRunning == spc \in {"start", "put"}

(* ------------- MediaHandler.UploadStream, the handler's task ---------- *)

\* A call arrives. The model follows one UploadStream call, from its first
\* statement to the end of both of its tasks.
USBegin ==
    /\ hpc = "idle"
    /\ calls' = calls + 1
    /\ hpc' = "first"
    /\ UNCHANGED <<nFrames, meta, firstIn, pipe, wn, totalBytes, resultChan, status,
                   sent, rcvd, spc, sKey, sBuf, sObs, sRes>>
    /\ UNCHANGED <<store, uuidCtr, keyLog, unaryVars, dsVars>>
    /\ UNCHANGED <<loopIn, urlVars>>

\* return status.Errorf(code, msg, ...): the handler is over and no response
\* is sent.
ReturnError(code, msg) ==
    /\ status' = [code |-> code, msg |-> msg]
    /\ hpc' = "done"

\* Lines 56-59: the first stream.Recv() fails, with io.EOF or anything else.
USFirstRecvErr ==
    /\ hpc = "first"
    /\ \E err \in {ErrEOF, ErrRecv} :
         /\ firstIn' = err
         /\ ReturnError("InvalidArgument", "failed to receive metadata")
    /\ UNCHANGED <<calls, nFrames, meta, pipe, wn, totalBytes, resultChan, sent, rcvd,
                   spc, sKey, sBuf, sObs, sRes>>
    /\ UNCHANGED <<store, uuidCtr, keyLog, unaryVars, dsVars>>
    /\ UNCHANGED <<loopIn, urlVars>>

\* Lines 56-80: the first frame. Without metadata the call is rejected; with
\* it the pipe and the result channel are made and the goroutine is started.
USFirstFrame ==
    /\ hpc = "first"
    /\ \E f \in Frames :
         /\ firstIn' = f.kind
         /\ IF ~HasMetadata(f)
            THEN /\ ReturnError("InvalidArgument", "first message must be metadata")
                 /\ UNCHANGED <<meta, pipe, resultChan, spc>>
            ELSE /\ uuidCtr < MaxKeys
                 /\ meta' = f.meta
                 /\ pipe' = NewPipe
                 /\ resultChan' = <<>>
                 /\ spc' = "start"
                 /\ hpc' = "recv"
                 /\ UNCHANGED status
    /\ UNCHANGED <<calls, nFrames, wn, totalBytes, sent, rcvd, sKey, sBuf, sObs, sRes>>
    /\ UNCHANGED <<store, uuidCtr, keyLog, unaryVars, dsVars>>
    /\ UNCHANGED <<loopIn, urlVars>>

\* A loop that leaves the write end open when the input has ended.
CloseOnEOFSkipped(p) == p

\* Line 106: writer.Close()
CloseOnEOF(p) == CloseWrite(p, ErrNil)

\* Line 86-88 and 106: io.EOF ends the loop and the write end is closed.
USRecvEOF ==
    /\ hpc = "recv"
    /\ pipe' = CloseOnEOF(pipe)
    /\ hpc' = "wait"
    /\ UNCHANGED <<calls, nFrames, meta, firstIn, wn, totalBytes, resultChan, status, sent, rcvd,
                   spc, sKey, sBuf, sObs, sRes>>
    /\ UNCHANGED <<store, uuidCtr, keyLog, unaryVars, dsVars>>
    /\ UNCHANGED <<loopIn, urlVars>>

\* A receive error handled as the end of input is: the write end closed
\* without the error.
CloseOnRecvErrorClean(p, err) == CloseWrite(p, ErrNil)

\* A loop that returns on a receive error and leaves the write end open.
CloseOnRecvErrorMissing(p, err) == p

\* Line 90: writer.CloseWithError(err)
CloseOnRecvError(p, err) == CloseWrite(p, err)

\* Lines 89-92: any other receive error closes the write end with it.
USRecvErr ==
    /\ hpc = "recv"
    /\ pipe' = CloseOnRecvError(pipe, ErrRecv)
    /\ ReturnError("Internal", "failed to receive chunk")
    /\ UNCHANGED <<calls, nFrames, meta, firstIn, wn, totalBytes, resultChan, sent, rcvd,
                   spc, sKey, sBuf, sObs, sRes>>
    /\ UNCHANGED <<store, uuidCtr, keyLog, unaryVars, dsVars>>
    /\ UNCHANGED <<loopIn, urlVars>>

\* Lines 94-97: a frame without a chunk (a metadata frame, an unset oneof)
\* is skipped.
USRecvSkip ==
    /\ hpc = "recv"
    /\ nFrames < MaxFrames
    /\ \E f \in Frames :
         /\ ~HasChunk(f)
         /\ loopIn' = Append(loopIn, f.kind)
    /\ nFrames' = nFrames + 1
    /\ UNCHANGED <<hpc, calls, meta, firstIn, pipe, wn, totalBytes, resultChan, status, sent, rcvd,
                   spc, sKey, sBuf, sObs, sRes>>
    /\ UNCHANGED <<store, uuidCtr, keyLog, unaryVars, dsVars>>
    /\ UNCHANGED urlVars

\* A loop that hands the pipe every chunk but the first byte of it.
WriteArgShort(chunk) == Drop(chunk, Min(1, Len(chunk)))

\* Line 99: the slice handed to writer.Write.
WriteArg(chunk) == chunk

\* Lines 94-103, up to the first select of pipe.write: a frame with a chunk.
\* On a pipe already closed Write returns at once with writeCloseError; else
\* the slice is offered to the reader and Write blocks.
USRecvChunk ==
    /\ hpc = "recv"
    /\ nFrames < MaxFrames
    /\ \E f \in ChunkFrames(Len(rcvd)) :
         /\ HasChunk(f)
         /\ loopIn' = Append(loopIn, IF f.chunk = <<>> THEN "empty" ELSE "chunk")
         /\ rcvd' = rcvd \o f.chunk
         /\ IF pipe.done
            THEN /\ pipe' = CloseWrite(pipe, WriteCloseError(pipe))
                 /\ ReturnError("Internal", "failed to write chunk")
                 /\ wn' = 0
            ELSE /\ pipe' = [pipe EXCEPT !.offered = TRUE, !.buf = WriteArg(f.chunk)]
                 /\ wn' = 0
                 /\ hpc' = "write"
                 /\ UNCHANGED status
    /\ nFrames' = nFrames + 1
    /\ UNCHANGED <<calls, meta, firstIn, totalBytes, resultChan, sent, spc, sKey, sBuf, sObs, sRes>>
    /\ UNCHANGED <<store, uuidCtr, keyLog, unaryVars, dsVars>>
    /\ UNCHANGED urlVars

\* A counter that adds one per chunk, not its length.
AddTotalPerChunk(total, n) == total + 1

\* Line 104: totalBytes += int64(n)
AddTotal(total, n) == total + n

\* A hand-off that does not wait for the reader: Write returns at once.
WriteDoneAtOnce(p) == TRUE

\* Line 99: writer.Write returns nil only when the reader has taken all of
\* the slice; until then the loop is blocked in it.
WriteDone(p) == ~p.offered

\* Lines 99-104, the return of writer.Write. Once the reader has taken the
\* whole slice Write returns (n, nil); if the pipe is closed while bytes are
\* still offered it returns (n, writeCloseError) and the call fails.
USWriteReturn ==
    /\ hpc = "write"
    /\ IF WriteDone(pipe)
       THEN /\ totalBytes' = AddTotal(totalBytes, wn)
            /\ hpc' = "recv"
            /\ UNCHANGED <<pipe, status>>
       ELSE /\ pipe.done
            /\ pipe' = CloseWrite([pipe EXCEPT !.offered = FALSE], WriteCloseError(pipe))
            /\ ReturnError("Internal", "failed to write chunk")
            /\ UNCHANGED totalBytes
    /\ UNCHANGED <<calls, nFrames, meta, firstIn, wn, resultChan, sent, rcvd,
                   spc, sKey, sBuf, sObs, sRes>>
    /\ UNCHANGED <<store, uuidCtr, keyLog, unaryVars, dsVars>>
    /\ UNCHANGED <<loopIn, urlVars>>

\* A handler that answers with whatever the storage write left behind.
ResultFailedNever(result) == FALSE

\* Line 110: result.err != nil
ResultFailed(result) == result.err # ErrNil

\* A response that echoes the advisory size of the metadata frame.
UploadResponseAdvisory(filePath, total) ==
    [filePath |-> filePath, fileSize |-> meta.fileSize]

\* A response that names the file as the caller did, not the key it was
\* stored under.
UploadResponseOtherPath(filePath, total) ==
    [filePath |-> meta.fileName, fileSize |-> total]

\* Lines 116-121: the UploadResponse (Url and UploadedAt left out).
UploadResponse(filePath, total) ==
    [filePath |-> filePath, fileSize |-> total]

\* Lines 109-121: receive the result; an error is returned as Internal,
\* else the response goes to SendAndClose, whose own error is returned.
USWait ==
    /\ hpc = "wait"
    /\ resultChan # <<>>
    /\ LET result == Head(resultChan)
       IN  IF ResultFailed(result)
           THEN /\ ReturnError("Internal", "failed to upload file")
                /\ UNCHANGED sent
           ELSE /\ sent' = Append(sent, UploadResponse(result.filePath, totalBytes))
                /\ hpc' = "done"
                /\ \E sendOk \in BOOLEAN :
                     status' = IF sendOk THEN [code |-> "OK", msg |-> ""]
                               ELSE [code |-> "Unavailable", msg |-> "send failed"]
    /\ resultChan' = Tail(resultChan)
    /\ UNCHANGED <<calls, nFrames, meta, firstIn, pipe, wn, totalBytes, rcvd,
                   spc, sKey, sBuf, sObs, sRes>>
    /\ UNCHANGED <<store, uuidCtr, keyLog, unaryVars, dsVars>>
    /\ UNCHANGED <<loopIn, urlVars>>

(* ------ the goroutine of lines 77-80 and MinioStorage.Upload ---------- *)

\* Lines 73-76 of MinioStorage.Upload: a fresh identifier and today's date
\* make the key.
GenerateKey(day, fileName) ==
    /\ uuidCtr' = uuidCtr + 1
    /\ keyLog' = Append(keyLog, [key |-> FilePath(day, NewUuid(uuidCtr + 1), fileName),
                                 fileName |-> fileName])

\* The goroutine starts: h.service.UploadStream -> storage.Upload computes
\* the key and calls PutObject with the read end of the pipe.
SStart ==
    /\ spc = "start"
    /\ \E day \in Days :
         /\ GenerateKey(day, meta.fileName)
         /\ sKey' = FilePath(day, NewUuid(uuidCtr + 1), meta.fileName)
    /\ spc' = "put"
    /\ UNCHANGED <<hpc, calls, nFrames, meta, firstIn, pipe, wn, totalBytes, resultChan, status,
                   sent, rcvd, sBuf, sObs, sRes>>
    /\ UNCHANGED <<store, unaryVars, dsVars>>
    /\ UNCHANGED <<loopIn, urlVars>>

\* PutObject reads the conduit: one pipe.read with a buffer of n bytes. A
\* closed pipe gives (0, readCloseError): io.EOF after writer.Close(), the
\* error after CloseWithError. An offered slice gives its first bytes.
SRead ==
    /\ spc = "put"
    /\ sObs = "none"
    /\ IF pipe.done
       THEN /\ sObs' = IF ReadCloseError(pipe) = ErrEOF THEN "eof" ELSE "err"
            /\ UNCHANGED <<pipe, wn, sBuf>>
       ELSE /\ pipe.offered
            /\ \E n \in ReadLens :
                 LET t == PipeTake(pipe, n)
                 IN  /\ pipe' = t.p
                     /\ sBuf' = sBuf \o t.got
                     /\ wn' = wn + Len(t.got)
            /\ UNCHANGED sObs
    /\ UNCHANGED <<hpc, calls, nFrames, meta, firstIn, totalBytes, resultChan, status, sent, rcvd,
                   spc, sKey, sRes>>
    /\ UNCHANGED <<store, uuidCtr, keyLog, unaryVars, dsVars>>
    /\ UNCHANGED <<loopIn, urlVars>>

\* Whether a PutObject given sizeHint may report success after reading buf
\* and seeing the stream end as obs: never after a read error; after
\* end-of-stream; or once it has read the announced number of bytes.
PutMaySucceed(sizeHint, buf, obs) ==
    /\ obs # "err"
    /\ \/ obs = "eof"
       \/ (sizeHint >= 0 /\ Len(buf) = sizeHint)

\* The bucket after a successful PutObject of data under key.
PutObject(bucket, key, data) == MapPut(bucket, key, data)

\* Lines 79-96 of MinioStorage.Upload: PutObject returns. It may fail at any
\* moment; it stores what it has read when it succeeds. The client may close
\* a reader that is an io.Closer when it returns.
SReturn ==
    /\ spc = "put"
    /\ \E ok \in BOOLEAN, closeRd \in BOOLEAN :
         /\ ok => PutMaySucceed(meta.fileSize, sBuf, sObs)
         /\ store' = IF ok THEN PutObject(store, sKey, sBuf) ELSE store
         /\ sRes' = IF ok THEN [filePath |-> sKey, err |-> ErrNil]
                    ELSE [filePath |-> <<>>, err |-> ErrStorage]
         /\ pipe' = IF closeRd THEN CloseRead(pipe, ErrNil) ELSE pipe
    /\ spc' = "send"
    /\ UNCHANGED <<hpc, calls, nFrames, meta, firstIn, wn, totalBytes, resultChan, status, sent,
                   rcvd, sKey, sBuf, sObs>>
    /\ UNCHANGED <<uuidCtr, keyLog, unaryVars, dsVars>>
    /\ UNCHANGED <<loopIn, urlVars>>

\* Line 79: resultChan <- uploadResult{...}; a send blocks on a full channel.
SSend ==
    /\ spc = "send"
    /\ Len(resultChan) < ResultChanCap
    /\ resultChan' = Append(resultChan, sRes)
    /\ spc' = "done"
    /\ UNCHANGED <<hpc, calls, nFrames, meta, firstIn, pipe, wn, totalBytes, status, sent, rcvd,
                   sKey, sBuf, sObs, sRes>>
    /\ UNCHANGED <<store, uuidCtr, keyLog, unaryVars, dsVars>>
    /\ UNCHANGED <<loopIn, urlVars>>

(* --------------------------- unary calls ------------------------------ *)

\* A key no upload generates.
MissingKey == <<"nonexistent", "/", "key">>

\* MediaHandler.Upload, lines 31-49, with MediaService.UploadFile and
\* MinioStorage.Upload: the buffer is wrapped in a bytes.Reader of known
\* length and stored under a fresh key, or PutObject fails (Internal).
Upload ==
    /\ uuidCtr + (IF spc = "start" THEN 1 ELSE 0) < MaxKeys
    /\ \E name \in FileNames, content \in Contents, ct \in ContentTypes,
          day \in Days, ok \in BOOLEAN :
         LET key == FilePath(day, NewUuid(uuidCtr + 1), name)
         IN  /\ GenerateKey(day, name)
             /\ ok => PutMaySucceed(Len(content), content, "eof")
             /\ store' = IF ok THEN PutObject(store, key, content) ELSE store
             /\ upLog' = IF ok THEN MapPut(upLog, key, [content |-> content,
                                                      fileSize |-> Len(content)])
                         ELSE upLog
    /\ UNCHANGED dlResp
    /\ UNCHANGED <<usVars, dsVars>>
    /\ UNCHANGED urlVars

\* Paths a caller may ask for: every key ever generated, and one that never
\* was.
Paths == { keyLog[i].key : i \in DOMAIN keyLog } \cup {MissingKey}

\* MinioStorage.Download, lines 100-123: GetObject or the Stat that follows
\* fails when the request fails or the bucket holds no such object.
OpenFails(path, requestFails) == requestFails \/ path \notin DOMAIN store

RECURSIVE ReadAllFrom(_, _)
\* io.ReadAll: read piece after piece up to end-of-stream and append.
ReadAllFrom(data, pos) ==
    IF pos >= Len(data) THEN <<>>
    ELSE LET n == Min(BufferSize, Len(data) - pos)
         IN  SubSeq(data, pos + 1, pos + n) \o ReadAllFrom(data, pos + n)

\* A handler that reports every storage failure alike.
DownloadOpenStatusInternal == "Internal"

\* Line 131: the status of a Download whose read handle was not obtained.
DownloadOpenStatus == "NotFound"

\* Line 156: the same for DownloadStream.
StreamOpenStatus == "NotFound"

\* A handler that calls reader.Read once where it should read to the end.
ReadContentOnce(data) == Take(data, Min(1, Len(data)))

\* Line 135: io.ReadAll(reader)
ReadContent(data) == ReadAllFrom(data, 0)

\* MediaHandler.Download, lines 125-148.
Download ==
    /\ \E path \in Paths, requestFails \in BOOLEAN, readFails \in BOOLEAN :
         dlResp' =
           IF OpenFails(path, requestFails)
           THEN [NoDownload EXCEPT !.path = path, !.status = DownloadOpenStatus]
           ELSE IF readFails
           THEN [NoDownload EXCEPT !.path = path, !.status = "Internal", !.closed = 1]
           ELSE LET content == ReadContent(store[path])
                IN  [path |-> path, status |-> "OK", content |-> content,
                     fileSize |-> Len(content), fileName |-> path,
                     contentType |-> "application/octet-stream", closed |-> 1]
    /\ UNCHANGED upLog
    /\ UNCHANGED <<usVars, store, uuidCtr, keyLog, dsVars>>
    /\ UNCHANGED urlVars

\* MediaHandler.Delete, lines 198-211, with MinioStorage.Delete: RemoveObject
\* removes the object if there is one, or fails (Internal).
Delete ==
    /\ \E path \in Paths, ok \in BOOLEAN :
         store' = IF ok THEN MapRemove(store, path) ELSE store
    /\ UNCHANGED <<upLog, dlResp>>
    /\ UNCHANGED <<usVars, uuidCtr, keyLog, dsVars>>
    /\ UNCHANGED urlVars

(* ------------------------ GetURL, GetFileInfo ------------------------- *)

\* A storage adapter that joins the parts whatever the base URL is.
GetFileURLAlwaysJoined(base, filePath) ==
    base \o <<"/">> \o BucketName \o <<"/">> \o filePath

\* MinioStorage.GetURL, reached through MediaService.GetFileURL: "" when no
\* base URL is configured, else fmt.Sprintf("%s/%s/%s", fileURL, bucket, path).
GetFileURL(base, filePath) ==
    IF base = <<>> THEN <<>>
    ELSE base \o <<"/">> \o BucketName \o <<"/">> \o filePath

\* MediaHandler.GetURL, lines 214-219.
GetURL ==
    /\ \E path \in Paths :
         urlResp' = [op |-> "GetURL", filePath |-> path,
                     url |-> GetFileURL(fileURL, path), status |-> "OK"]
    /\ UNCHANGED <<usVars, store, uuidCtr, keyLog, unaryVars, fileURL, dsVars>>

\* MediaHandler.GetFileInfo, lines 222-231.
GetFileInfo ==
    /\ \E path \in Paths :
         urlResp' = [op |-> "GetFileInfo", filePath |-> path,
                     url |-> GetFileURL(fileURL, path), status |-> "OK"]
    /\ UNCHANGED <<usVars, store, uuidCtr, keyLog, unaryVars, fileURL, dsVars>>

(* -------------------- MediaHandler.DownloadStream --------------------- *)

MetadataFrame(path) == [kind |-> "metadata", fileName |-> path, chunk |-> <<>>]
ChunkFrame(bytes) == [kind |-> "chunk", fileName |-> <<>>, chunk |-> bytes]

\* Lines 154-158: ask storage for the read handle; any failure is NotFound.
DSOpen ==
    /\ dpc \in {"idle", "done"}
    /\ dCalls < MaxDownloads
    /\ dCalls' = dCalls + 1
    /\ dFrames' = <<>>
    /\ dLast' = NoRead
    /\ dPos' = 0
    /\ dClosed' = 0
    /\ \E path \in Paths, requestFails \in BOOLEAN :
         /\ dPath' = path
         /\ IF OpenFails(path, requestFails)
            THEN /\ dStatus' = StreamOpenStatus
                 /\ dpc' = "done"
                 /\ dData' = <<>>
            ELSE /\ dStatus' = "none"
                 /\ dpc' = "meta"
                 /\ dData' = store[path]
    /\ UNCHANGED <<usVars, store, uuidCtr, keyLog, unaryVars>>
    /\ UNCHANGED urlVars

\* Lines 161-170: the metadata frame; a failed Send ends the call with
\* Internal and the deferred reader.Close() runs.
DSSendMeta ==
    /\ dpc = "meta"
    /\ \E sendOk \in BOOLEAN :
         /\ dLast' = [NoRead EXCEPT !.send = IF sendOk THEN "ok" ELSE "failed"]
         /\ IF sendOk
            THEN /\ dFrames' = Append(dFrames, MetadataFrame(dPath))
                 /\ dpc' = "read"
                 /\ UNCHANGED <<dStatus, dClosed>>
            ELSE /\ dStatus' = "Internal"
                 /\ dpc' = "done"
                 /\ dClosed' = dClosed + 1
                 /\ UNCHANGED dFrames
    /\ UNCHANGED <<dCalls, dPath, dData, dPos>>
    /\ UNCHANGED <<usVars, store, uuidCtr, keyLog, unaryVars>>
    /\ UNCHANGED urlVars

\* What one reader.Read(buffer) may return by the io.Reader contract: n bytes,
\* 0 <= n <= len(buffer), no more than are left; io.EOF only with the last
\* byte or after it; an error with any n. (0, nil) leaves the state as it is
\* and is left out.
ReadOutcomes(left) ==
    { r \in [n : 0..Min(BufferSize, left), err : {ErrNil, ErrEOF, ErrStorage}] :
        /\ r.err = ErrNil => r.n > 0
        /\ r.err = ErrEOF => r.n = left }

\* A loop that sends a frame for every Read, also one that returned nothing.
ShouldSendAlways(n) == TRUE

\* Line 176: if n > 0
ShouldSend(n) == n > 0

\* A loop that takes any error of Read for the end of the object.
IsEOFAnyError(err) == err # ErrNil

\* Line 186: err == io.EOF
IsEOF(err) == err = ErrEOF

\* Lines 174-194: one turn of the loop. The bytes read are sent before the
\* error is looked at; io.EOF ends the call with OK, another error with
\* Internal; the deferred reader.Close() runs on every return.
DSRead ==
    /\ dpc = "read"
    /\ \E r \in ReadOutcomes(Len(dData) - dPos), sendOk \in BOOLEAN :
         /\ dPos' = dPos + r.n
         /\ dLast' = [n |-> r.n, err |-> r.err,
                      send |-> IF ~ShouldSend(r.n) THEN "none"
                               ELSE IF sendOk THEN "ok" ELSE "failed"]
         /\ IF ShouldSend(r.n) /\ ~sendOk
            THEN /\ dStatus' = "Internal"
                 /\ dpc' = "done"
                 /\ dClosed' = dClosed + 1
                 /\ UNCHANGED dFrames
            ELSE /\ dFrames' = IF ShouldSend(r.n)
                               THEN Append(dFrames, ChunkFrame(SubSeq(dData, dPos + 1, dPos + r.n)))
                               ELSE dFrames
                 /\ IF IsEOF(r.err)
                    THEN /\ dStatus' = "OK"
                         /\ dpc' = "done"
                         /\ dClosed' = dClosed + 1
                    ELSE IF r.err # ErrNil
                    THEN /\ dStatus' = "Internal"
                         /\ dpc' = "done"
                         /\ dClosed' = dClosed + 1
                    ELSE UNCHANGED <<dStatus, dpc, dClosed>>
    /\ UNCHANGED <<dCalls, dPath, dData>>
    /\ UNCHANGED <<usVars, store, uuidCtr, keyLog, unaryVars>>
    /\ UNCHANGED urlVars

(* --------------------------- specifications --------------------------- *)

\* One UploadStream call with its two tasks.
Next ==
    \/ USBegin
    \/ USFirstRecvErr
    \/ USFirstFrame
    \/ USRecvEOF
    \/ USRecvErr
    \/ USRecvSkip
    \/ USRecvChunk
    \/ USWriteReturn
    \/ USWait
    \/ SStart
    \/ SRead
    \/ SReturn
    \/ SSend

Spec == Init /\ [][Next]_vars

\* The steps of the handler's task and of the storage-write task.
HandlerStep ==
    USFirstRecvErr \/ USFirstFrame \/ USRecvEOF \/ USRecvErr \/ USRecvSkip
        \/ USRecvChunk \/ USWriteReturn \/ USWait
StorageStep == SStart \/ SRead \/ SReturn \/ SSend

\* The Go scheduler runs every goroutine that can run.
FairSpec == Spec /\ WF_vars(HandlerStep) /\ WF_vars(StorageStep)

\* An UploadStream call with the whole-body uploads of other callers in
\* between.
NextKeys ==
    \/ Next
    \/ Upload

SpecKeys == Init /\ [][NextKeys]_vars

\* Whole-body calls only.
NextUnary ==
    \/ Upload
    \/ Delete
    \/ Download

SpecUnary == Init /\ [][NextUnary]_vars

\* The download side, on a bucket that holds an object.
NextDownload ==
    \/ Delete
    \/ Download
    \/ DSOpen
    \/ DSSendMeta
    \/ DSRead

SpecDownload == InitDownload /\ [][NextDownload]_vars

\* A service configured with or without a public base URL, on an empty
\* bucket.
InitURL ==
    /\ InitCalls
    /\ fileURL \in FileURLs
    /\ store = EmptyMap
    /\ uuidCtr = 0
    /\ keyLog = <<>>

\* URL derivation next to the calls that change the bucket.
NextURL ==
    \/ Upload
    \/ Delete
    \/ GetURL
    \/ GetFileInfo

SpecURL == InitURL /\ [][NextURL]_vars

(* ------------------------------ claims -------------------------------- *)

\* The first Recv of the call returned something other than a metadata
\* frame: end of stream, an error, a chunk frame, a frame with nothing set.
FirstFrameBad == firstIn \notin {"none", "metadata"}

\* C1: an UploadStream whose first Recv fails (end of stream or error) or
\* whose first frame carries no metadata returns InvalidArgument, and for
\* that call no pipe is made, the storage write is never started, no key is
\* generated, no byte is read, no response sent and no object stored.
C1_FirstFrameMustBeMetadata ==
    FirstFrameBad =>
        /\ status.code = "InvalidArgument"
        /\ hpc = "done"
        /\ ~pipe.made
        /\ spc = "none"
        /\ sKey = <<>>
        /\ sBuf = <<>>
        /\ sent = <<>>
        /\ Len(keyLog) < calls
        /\ Cardinality(DOMAIN store) < calls

\* C1 witness: a call rejected because its first frame was not metadata.
C1_Witness ==
    /\ firstIn = "chunk"
    /\ hpc = "done"
    /\ status = [code |-> "InvalidArgument", msg |-> "first message must be metadata"]
    /\ spc = "none"

\* The call handed a response to SendAndClose.
Responded == sent # <<>>

\* C2: when UploadStream answers with a response, the bytes the storage write
\* has read from the conduit are the chunk payloads in the order received,
\* nothing dropped, repeated or moved, and the object under the returned key
\* is the one a whole-body upload of that concatenation stores.
C2_StreamedBytesInOrder ==
    Responded =>
        /\ sBuf = rcvd
        /\ sent[1].filePath \in DOMAIN store
        /\ store[sent[1].filePath] = PutObject(EmptyMap, sent[1].filePath, rcvd)[sent[1].filePath]

\* C2 witness: a successful call of two non-empty chunks, three bytes.
C2_Witness ==
    /\ Responded
    /\ status.code = "OK"
    /\ rcvd = <<1, 2, 3>>
    /\ nFrames = 2

\* C3: the fileSize of a response is the sum of the lengths of the chunk
\* payloads received and the length of the stored object, whatever size the
\* metadata frame announced.
C3_FileSizeIsBytesReceived ==
    Responded =>
        /\ sent[1].fileSize = Len(rcvd)
        /\ sent[1].filePath \in DOMAIN store
        /\ sent[1].fileSize = Len(store[sent[1].filePath])

\* C3 witness: a successful call whose metadata announced 0 bytes and which
\* received more.
C3_Witness ==
    /\ Responded
    /\ status.code = "OK"
    /\ meta.fileSize = 0
    /\ Len(rcvd) > 0

\* The storage write has returned an error.
StorageFailed == spc \in {"send", "done"} /\ sRes.err # ErrNil

\* C4: once the storage write has returned an error the call never responds
\* and never returns OK; when it returns, it returns Internal.
C4_NoSuccessAfterStorageError ==
    StorageFailed =>
        /\ sent = <<>>
        /\ status.code # "OK"
        /\ hpc = "done" => status.code = "Internal"

\* C4 witness: the loop read all frames to end-of-input, the storage write
\* failed after reading every byte, and the call returned Internal.
C4_Witness ==
    /\ StorageFailed
    /\ hpc = "done"
    /\ status = [code |-> "Internal", msg |-> "failed to upload file"]
    /\ sObs = "eof"
    /\ sBuf = rcvd
    /\ Len(rcvd) > 0

\* The bytes of the chunk whose Write is in progress that the reader has not
\* taken yet.
InFlight == IF hpc = "write" THEN pipe.buf ELSE <<>>

\* While the call has not failed, every payload byte received is either with
\* the storage write or in the Write the loop is blocked in, in order.
NothingDropped ==
    (pipe.made /\ status.code \in {"none", "OK", "Unavailable"}) => rcvd = sBuf \o InFlight

\* The loop receives no further frame while a slice is still offered.
BlockedWhileOffered == (pipe.made /\ pipe.offered) => hpc \in {"write", "done"}

FailedOnRecv == status.msg = "failed to receive chunk"

\* C6: after a receive error in the Streaming state the write end is closed
\* with that error and the call has returned Internal without a response;
\* a read of the conduit then returns the error and never io.EOF, the storage
\* write has not seen a clean end of stream, and having seen the error it
\* reports no object as stored.
C6_RecvErrorAbortsWrite ==
    FailedOnRecv =>
        /\ status.code = "Internal"
        /\ hpc = "done"
        /\ sent = <<>>
        /\ pipe.done
        /\ pipe.werr = ErrRecv
        /\ pipe.rerr = ErrNil => ReadCloseError(pipe) = ErrRecv
        /\ sObs # "eof"
        /\ (sObs = "err" /\ spc \in {"send", "done"}) => sRes.err # ErrNil

\* C6 witness: the storage write, having read a chunk, met the receive error
\* on its next read and returned an error.
C6_Witness ==
    /\ FailedOnRecv
    /\ sObs = "err"
    /\ spc = "done"
    /\ Len(sBuf) > 0
    /\ sRes.err # ErrNil

(* ----------------------- claims: the download side -------------------- *)

RECURSIVE ConcatChunks(_)
\* The payloads of the chunk frames of a frame sequence, concatenated.
ConcatChunks(frames) ==
    IF frames = <<>> THEN <<>>
    ELSE (IF Head(frames).kind = "chunk" THEN Head(frames).chunk ELSE <<>>)
             \o ConcatChunks(Tail(frames))

\* Number of chunk frames in a frame sequence.
NumChunkFrames(frames) ==
    Cardinality({ i \in DOMAIN frames : frames[i].kind = "chunk" })

\* ceil(a / b)
CeilDiv(a, b) == (a + b - 1) \div b

\* C7: a successful DownloadStream of an object of S bytes has sent one
\* metadata frame and then exactly ceil(S / BufferSize) chunk frames whose
\* payloads concatenate to the object, however the read handle returns its
\* data. The code sends one frame per Read that returned bytes, so a handle
\* that returns less than a full buffer makes more frames.
C7_ChunkCountIsCeil ==
    (dpc = "done" /\ dStatus = "OK") =>
        /\ dFrames # <<>>
        /\ dFrames[1] = MetadataFrame(dPath)
        /\ NumChunkFrames(dFrames) = Len(dFrames) - 1
        /\ ConcatChunks(dFrames) = dData
        /\ NumChunkFrames(dFrames) = CeilDiv(Len(dData), BufferSize)

\* The step is a Download call (one that changed the recorded outcome).
DownloadStep == dlResp' # dlResp
\* The step is the opening of a DownloadStream call.
OpenStep == dCalls' = dCalls + 1

\* C8: a Download or DownloadStream either obtains a read handle on an object
\* the bucket holds, or fails with NotFound; it fails so whenever the bucket
\* holds no object under the path, and DownloadStream then has sent no frame.
C8_MissingKeyIsNotFound ==
    /\ [][DownloadStep =>
            /\ dlResp'.path \notin DOMAIN store => dlResp'.status = "NotFound"
            /\ dlResp'.closed = 0 <=> dlResp'.status = "NotFound"]_vars
    /\ [][OpenStep =>
            /\ dPath' \notin DOMAIN store => dStatus' = "NotFound"
            /\ \/ dpc' = "meta" /\ dPath' \in DOMAIN store /\ dStatus' = "none"
               \/ dpc' = "done" /\ dStatus' = "NotFound"
            /\ dFrames' = <<>>]_vars
    /\ [](dStatus = "NotFound" => dFrames = <<>> /\ dClosed = 0)

\* C8 witness: both calls have failed with NotFound, Download on a key that
\* never existed and DownloadStream on a key that was deleted.
C8_Witness ==
    /\ dlResp.status = "NotFound"
    /\ dlResp.path = MissingKey
    /\ dpc = "done"
    /\ dStatus = "NotFound"
    /\ dPath # MissingKey
    /\ dFrames = <<>>

(* ------------------ claims: round trip and key policy ----------------- *)

\* C9: the object of a successful whole-body Upload is stored under the
\* returned key as uploaded, with fileSize its length; it is there as
\* uploaded for as long as the key is in the bucket, whatever other uploads
\* come in between; and a Download of that key that succeeds returns
\* exactly the uploaded bytes and their count.
C9_UploadDownloadRoundTrip ==
    /\ [](\A k \in DOMAIN upLog :
            /\ upLog[k].fileSize = Len(upLog[k].content)
            /\ k \in DOMAIN store => store[k] = upLog[k].content)
    /\ [][\A k \in DOMAIN upLog' \ DOMAIN upLog : k \in DOMAIN store']_vars
    /\ [][\A k \in DOMAIN upLog :
            (DownloadStep /\ dlResp'.path = k /\ dlResp'.status = "OK") =>
                /\ dlResp'.content = upLog[k].content
                /\ dlResp'.fileSize = Len(upLog[k].content)]_vars

\* C9 witness: a two-byte upload was downloaded after another upload.
C9_Witness ==
    /\ Len(keyLog) = 2
    /\ dlResp.status = "OK"
    /\ dlResp.path = keyLog[1].key
    /\ dlResp.path \in DOMAIN upLog
    /\ keyLog[2].key \in DOMAIN upLog
    /\ dlResp.content = <<1, 2>>
    /\ dlResp.fileSize = 2

\* The extension of a file name, said without a loop: the suffix from the
\* last dot on, if there is a dot with no path separator after it.
HasExt(name, i) ==
    /\ name[i] = "."
    /\ \A j \in (i + 1)..Len(name) : name[j] \notin {".", "/"}
ExtOf(name) ==
    IF \E i \in DOMAIN name : HasExt(name, i)
    THEN LET i == CHOOSE i \in DOMAIN name : HasExt(name, i)
         IN  SubSeq(name, i, Len(name))
    ELSE <<>>

\* A key of the form <YYYY/MM/DD>/<uuid><ext> for the given file name.
WellFormedKey(key, name) ==
    /\ Len(key) = 7 + Len(ExtOf(name))
    /\ \E day \in Days : SubSeq(key, 1, 5) = FormatDate(day)
    /\ key[6] = "/"
    /\ \E n \in 1..uuidCtr : key[7] = NewUuid(n)
    /\ SubSeq(key, 8, Len(key)) = ExtOf(name)

\* C10: the keys generated by Upload and UploadStream calls, in any order and
\* interleaving, are pairwise distinct, also for equal file names and equal
\* content; each is <YYYY/MM/DD>/<uuid><ext> with the extension of the file
\* name it was made for; every stored object lies under a generated key and
\* no step replaces the object under a key.
C10_KeysNeverReused ==
    /\ [](\A i, j \in DOMAIN keyLog : i # j => keyLog[i].key # keyLog[j].key)
    /\ [](\A i \in DOMAIN keyLog : WellFormedKey(keyLog[i].key, keyLog[i].fileName))
    /\ [](DOMAIN store \subseteq { keyLog[i].key : i \in DOMAIN keyLog })
    /\ [][\A k \in DOMAIN store : k \in DOMAIN store' /\ store'[k] = store[k]]_vars

\* C10 witness: an UploadStream and an Upload with the same file name and
\* the same two bytes of content, on the same day, have both stored their
\* object.
C10_Witness ==
    /\ Len(keyLog) = 2
    /\ keyLog[1].fileName = keyLog[2].fileName
    /\ SubSeq(keyLog[1].key, 1, 5) = SubSeq(keyLog[2].key, 1, 5)
    /\ sKey \in DOMAIN store
    /\ store[sKey] = <<1, 2>>
    /\ \E k \in DOMAIN upLog : k # sKey /\ k \in DOMAIN store /\ store[k] = store[sKey]
    /\ Responded

(* ------------------------- claims: URL derivation --------------------- *)

\* The step is a GetURL or GetFileInfo call (one that changed the recorded
\* outcome).
URLStep == urlResp' # urlResp

\* C11: GetURL and GetFileInfo return "<baseURL>/<bucket>/<path>" when a base
\* URL is configured and "" when it is empty; they never fail, GetFileInfo
\* echoes the path, the answer is the same whether or not the bucket holds
\* the path, and the bucket is left as it was.
C11_UrlDerivation ==
    /\ [][URLStep =>
            /\ urlResp'.status = "OK"
            /\ fileURL = <<>> => urlResp'.url = <<>>
            /\ fileURL # <<>> =>
                  /\ Len(urlResp'.url) = Len(fileURL) + Len(BucketName) + Len(urlResp'.filePath) + 2
                  /\ SubSeq(urlResp'.url, 1, Len(fileURL)) = fileURL
                  /\ urlResp'.url[Len(fileURL) + 1] = "/"
                  /\ SubSeq(urlResp'.url, Len(fileURL) + 2, Len(fileURL) + 1 + Len(BucketName))
                        = BucketName
                  /\ urlResp'.url[Len(fileURL) + Len(BucketName) + 2] = "/"
                  /\ SubSeq(urlResp'.url, Len(fileURL) + Len(BucketName) + 3, Len(urlResp'.url))
                        = urlResp'.filePath
            /\ store' = store
            /\ UNCHANGED <<uuidCtr, keyLog, upLog, dlResp, fileURL>>]_vars
    /\ [](urlResp.op # "none" => urlResp.status = "OK")

\* C11 witness: GetURL of a generated key the bucket does not hold, with the base URL
\* https://cdn.example.com and the bucket media.
C11_Witness ==
    /\ urlResp.op = "GetURL"
    /\ urlResp.filePath # MissingKey
    /\ urlResp.filePath \notin DOMAIN store
    /\ urlResp.url = <<"https://cdn.example.com", "/", "media", "/">> \o urlResp.filePath

(* --------------------- claims: frames of the loop --------------------- *)

\* The loop of lines 84-105 has received a metadata frame, a second one for
\* the call.
SecondMetadata == \E i \in DOMAIN loopIn : loopIn[i] = "metadata"

\* C12: a call whose loop received another metadata frame ends with
\* InvalidArgument and without a response. The code has no such branch: the
\* frame has no chunk and is skipped (lines 94-97), and the call goes on to
\* answer as if the frame had not been sent.
C12_SecondMetadataRejected ==
    (SecondMetadata /\ hpc = "done") =>
        /\ status.code = "InvalidArgument"
        /\ sent = <<>>

(* ----------------------- claims: resource handles -------------------- *)

\* A Download or DownloadStream that obtained the read handle and has
\* returned has closed it exactly once.
ReadHandleClosedOnce ==
    /\ dlResp.status \notin {"none", "NotFound"} => dlResp.closed = 1
    /\ (dpc = "done" /\ dStatus # "NotFound") => dClosed = 1
    /\ dpc \in {"meta", "read"} => dClosed = 0

\* The call and its storage-write task have both finished.
CallOver == pipe.made /\ hpc = "done" /\ spc = "done"

\* The write end of the conduit has been closed (Close or CloseWithError).
WriteEndClosed == pipe.werr # ErrNil
\* The read end of the conduit has been closed.
ReadEndClosed == pipe.rerr # ErrNil

\* C13: the read handle of a download is closed exactly once on every path,
\* and once an UploadStream call and its storage write are over both ends of
\* the conduit are closed. The code closes the write end on every path but
\* never the read end: the goroutine of lines 77-80 hands the reader to the
\* storage write as an io.Reader and returns without closing it.
C13_HandlesReleased ==
    /\ ReadHandleClosedOnce
    /\ CallOver => (WriteEndClosed /\ ReadEndClosed)

(* ------------------- claims: the two tasks of a call ------------------ *)

\* Position of the storage-write task, as a number.
StoragePos(pc) ==
    CASE pc = "none" -> 0 [] pc = "start" -> 1 [] pc = "put" -> 2
      [] pc = "send" -> 3 [] pc = "done" -> 4

WriteAbandoned == hpc = "write" /\ pipe.offered /\ ~pipe.done /\ ~StorageRunning

\* C15: under fair scheduling every call returns, also when the storage
\* write returns before the loop has written all chunks. In the code a
\* storage write that returns early leaves the read end open, and the
\* writer.Write of the next chunk (line 99) then blocks for ever.
C15_CallReturns ==
    /\ (hpc = "first") ~> (hpc = "done")
    /\ (hpc = "write" /\ ~StorageRunning) ~> (hpc = "done")

(* -------------------- claims: frames of DownloadStream ---------------- *)

\* s is a prefix of t.
IsPrefix(s, t) == Len(s) <= Len(t) /\ SubSeq(t, 1, Len(s)) = s

\* C16: the frames a DownloadStream has sent are one metadata frame naming
\* the requested path and then chunk frames only, each with at least one
\* byte and at most a buffer of them, whose payloads put together are at
\* every moment the first bytes of the object; no frame is sent before the
\* metadata frame and no frame without bytes is sent at the end.
C16_FrameSequence ==
    /\ dpc \in {"idle", "meta"} => dFrames = <<>>
    /\ (dpc = "read" \/ (dpc = "done" /\ dStatus = "OK")) => dFrames # <<>>
    /\ dFrames # <<>> => dFrames[1] = MetadataFrame(dPath)
    /\ \A i \in 2..Len(dFrames) :
          /\ dFrames[i].kind = "chunk"
          /\ Len(dFrames[i].chunk) >= 1
          /\ Len(dFrames[i].chunk) <= BufferSize
    /\ IsPrefix(ConcatChunks(dFrames), dData)

\* C16 witness: an object of three bytes sent as two chunk frames, the Read
\* after them returning no byte and io.EOF.
C16_Witness ==
    /\ dpc = "done"
    /\ dStatus = "OK"
    /\ Len(dData) = 3
    /\ Len(dFrames) = 3
    /\ dLast = [n |-> 0, err |-> ErrEOF, send |-> "none"]

\* C17: when a Read fails with an error other than io.EOF the call is over
\* with Internal and the handle closed once, and what was sent is what was
\* read up to and with that error; when a Send fails, of the metadata frame
\* or of a chunk frame, the call is over with Internal and the handle
\* closed once; and a call that is over reads and sends nothing more.
C17_ReadErrorAborts ==
    /\ [](dLast.err = ErrStorage =>
            /\ dpc = "done"
            /\ dStatus = "Internal"
            /\ dClosed = 1
            /\ dLast.send # "failed" => ConcatChunks(dFrames) = SubSeq(dData, 1, dPos))
    /\ [](dLast.send = "failed" =>
            /\ dpc = "done"
            /\ dStatus = "Internal"
            /\ dClosed = 1)
    /\ [][(dLast'.err = ErrStorage /\ dLast' # dLast) => Len(dFrames') <= Len(dFrames) + 1]_vars
    /\ [][(dpc = "done" /\ ~OpenStep) =>
            UNCHANGED <<dFrames, dPos, dStatus, dClosed, dLast>>]_vars

\* C17 witness: the second Read returned one byte together with an error;
\* the byte went out and the call ended with Internal.
C17_Witness ==
    /\ dpc = "done"
    /\ dStatus = "Internal"
    /\ dLast = [n |-> 1, err |-> ErrStorage, send |-> "ok"]
    /\ Len(dFrames) = 3
    /\ dClosed = 1

(* ----------------------- claims: the response frame ------------------ *)

\* C18: a call hands at most one response to SendAndClose, and only when it
\* has seen end-of-input, closed the write end and received a result
\* without error from a storage write that is over; the response names the
\* key the object was stored under. A call that ended otherwise has sent
\* nothing and returned InvalidArgument, if its first Recv gave no metadata,
\* or Internal.
C18_ResponseOnlyWhenCompleted ==
    /\ Len(sent) <= 1
    /\ Responded =>
          /\ hpc = "done"
          /\ status.code \in {"OK", "Unavailable"}
          /\ pipe.werr = ErrEOF
          /\ spc = "done"
          /\ sRes.err = ErrNil
          /\ sent[1].filePath = sKey
          /\ sKey \in DOMAIN store
    /\ (hpc = "done" /\ ~Responded) =>
          /\ status.code \in {"InvalidArgument", "Internal"}
          /\ status.code = "InvalidArgument" <=> FirstFrameBad
    /\ hpc # "done" => (sent = <<>> /\ status = NoStatus)

\* C18 witness: a completed call of one chunk, answered once with the key of
\* the stored object.
C18_Witness ==
    /\ hpc = "done"
    /\ status.code = "OK"
    /\ Len(sent) = 1
    /\ sent[1].filePath = sKey
    /\ store[sKey] = <<1>>
    /\ loopIn = <<"chunk">>

(* ------------------- claims: empty and absent chunks ----------------- *)

\* The step receives a frame of the loop whose chunk is absent (nothing set
\* in the frame) or empty (a chunk of no bytes).
AbsentChunkStep == Len(loopIn') = Len(loopIn) + 1 /\ loopIn'[Len(loopIn')] = "unset"
EmptyChunkStep == Len(loopIn') = Len(loopIn) + 1 /\ loopIn'[Len(loopIn')] = "empty"

\* The loop is in the Write of an empty chunk.
InEmptyWrite == hpc = "write" /\ pipe.offered /\ pipe.buf = <<>>

\* C19: a frame of the loop with an absent or an empty chunk does not fail
\* the call, leaves the byte counter and the bytes of the storage write as
\* they are, and the loop goes on to receive the next frame. An absent chunk
\* is skipped (lines 94-97); an empty one is not nil and goes to
\* writer.Write (line 99), which waits for a reader even for no bytes: when
\* the storage write has returned, the Write fails or never returns.
C19_EmptyChunkIsNoOp ==
    /\ [][(AbsentChunkStep \/ EmptyChunkStep) =>
            /\ status' = NoStatus
            /\ totalBytes' = totalBytes
            /\ rcvd' = rcvd
            /\ sBuf' = sBuf]_vars
    /\ [][AbsentChunkStep => hpc' = "recv"]_vars
    /\ InEmptyWrite ~> (hpc = "recv")

(* --------------------- claims: the storage-write task ----------------- *)

\* The storage write waits in a read of the conduit that nothing answers:
\* no slice is offered and no end is closed.
ReadBlocked == spc = "put" /\ sObs = "none" /\ ~pipe.offered /\ ~pipe.done

\* C20: the send of the result never finds the channel full, so the
\* storage-write task ends once the storage write has returned, also when
\* the handler has returned and will never receive; and a handler that has
\* returned after the conduit was made has closed the write end, so that no
\* read of the storage write stays unanswered.
C20_StorageTaskEnds ==
    /\ [](spc = "send" => Len(resultChan) < ResultChanCap)
    /\ (spc = "send") ~> (spc = "done")
    /\ []((hpc = "done" /\ pipe.made) => (WriteEndClosed /\ pipe.done /\ ~ReadBlocked))
    /\ (hpc = "done" /\ spc = "put") ~> (spc = "done")

\* C20 witness: the loop returned on a receive error; the storage write met
\* the error, returned, and its task ended with the result left in the
\* channel.
C20_Witness ==
    /\ FailedOnRecv
    /\ hpc = "done"
    /\ spc = "done"
    /\ sObs = "err"
    /\ resultChan = <<sRes>>
    /\ sRes.err = ErrStorage

====
